---- MODULE Spec2Model ----
(***************************************************************************)
(* A model of the conversational session engine of the chatbot:            *)
(* ChatbotApp.process_input and get_or_create_session (main.py), the       *)
(* ContextHandler sliding window (model/context_handler.py), the response  *)
(* resolver (model/response_handler.py), the SVM classifier facade         *)
(* (model/intent_classifier.py) and the retrain coordinator                *)
(* (ChatbotApp.retrain_model).                                             *)
(*                                                                         *)
(* Texts are sequences of one-character strings so that str.lower() and    *)
(* str.strip() are computed, not assumed.  Confidences and thresholds are  *)
(* percentages (0.30 is 30).                                               *)
(***************************************************************************)
EXTENDS Integers, Sequences, FiniteSets, TLC

VARIABLES
    data,               \* ChatbotApp.data: "catalog" or "empty" ({"intents": []})
    config,             \* Config: CONFIDENCE_THRESHOLD (Unset: no such attribute)
                        \* and ENABLE_GOOGLE_FALLBACK
    classifiers,        \* heap of SVMIntentClassifier instances
    intent_classifier,  \* ChatbotApp.intent_classifier: index into classifiers
    jobs,               \* retrain_model invocations and their position
    sessions,           \* heap of session dicts
    user_sessions,      \* ChatbotApp.user_sessions: user -> index into sessions, 0 = absent
    ncalls,             \* number of process_input calls started
    last,               \* the last completed atomic process_input call and its result
    th,                 \* per thread: position inside process_input and its locals
    handler,            \* a stand-alone ContextHandler
    appended,           \* every turn ever appended to handler, in order
    clock,              \* time.time(), in ticks of half a second
    advances,           \* number of times the clock was advanced
    last_call,          \* query_google._last_call (Unset: no such attribute)
    cache,              \* utils.web_search._cache: cache key -> entry
    searches,           \* per caller: position inside google_fallback / query_google
    outbound,           \* the times at which an outbound search call was made
    nsearches,          \* number of google_fallback calls started
    api_keys,           \* the api_keys table, rows in id order
    api_sessions,       \* the api_sessions table, rows in id order
    today,              \* datetime.now(), in days
    http,               \* the last request to POST /chat and its answer
    dicts,              \* heap of turn dicts: the objects the deque and the lists hold
    window,             \* a ContextHandler whose deque holds references into dicts
    lists,              \* per caller: the list get_context() returned to it
    got                 \* what the last get_context() returned, by value

vars == <<data, config, classifiers, intent_classifier, jobs, sessions,
          user_sessions, ncalls, last, th, handler, appended,
          clock, advances, last_call, cache, searches, outbound, nsearches,
          api_keys, api_sessions, today, http, dicts, window, lists, got>>

appVars == <<data, config, classifiers, intent_classifier, jobs, sessions,
             user_sessions, ncalls, last, th>>

snapVars == <<dicts, window, lists, got>>

ctxVars == <<handler, appended, snapVars>>

webVars == <<clock, advances, last_call, cache, searches, outbound, nsearches>>

apiVars == <<api_keys, api_sessions, today, http>>

(***************************************************************************)
(* Bounds                                                                  *)
(***************************************************************************)
MaxCalls == 3
MaxRetrains == 2
MaxWindow == 3
MaxAppends == 5
MaxSearches == 3
MaxAdvances == 4

(***************************************************************************)
(* Program constants                                                       *)
(***************************************************************************)
CONTEXT_WINDOW_SIZE == 3
NoMatchConfidence == 30
Unset == 0 - 1

(***************************************************************************)
(* Texts                                                                   *)
(***************************************************************************)
None == <<"None">>

LowerChar(c) ==
    CASE c = "Y" -> "y"
      [] c = "E" -> "e"
      [] c = "S" -> "s"
      [] c = "N" -> "n"
      [] c = "O" -> "o"
      [] OTHER -> c

Lower(s) == IF s = <<>> THEN <<>> ELSE [i \in 1..Len(s) |-> LowerChar(s[i])]

RECURSIVE LStrip(_)
LStrip(s) == IF s /= <<>> /\ Head(s) = " " THEN LStrip(Tail(s)) ELSE s

RECURSIVE RStrip(_)
RStrip(s) ==
    IF s /= <<>> /\ s[Len(s)] = " " THEN RStrip(SubSeq(s, 1, Len(s) - 1)) ELSE s

Strip(s) == RStrip(LStrip(s))

YesWords == {<<"y", "e", "s">>, <<"y">>}
NoWords == {<<"n", "o">>, <<"n">>}

Messages ==
    { <<" ">>, <<"Y", "e", "s">>, <<"N">>, <<"y", "e", "s", " ">>, <<"a">> }

Users == {"admin_user", "u1"}

(***************************************************************************)
(* The intent catalog and the response texts                               *)
(***************************************************************************)
CatalogTags == {"greeting", "noresp"}

Picks == {1, 2}

\* ResponseHandler.__init__: default_responses and response_map, built from data
DefaultResponses(d) ==
    IF d = "catalog" THEN << <<"#default1">>, <<"#default2">> >>
    ELSE << <<"#notsure">> >>

ResponseMap(d, tag) ==
    IF d = "catalog" /\ tag = "greeting" THEN << <<"#greeting1">>, <<"#greeting2">> >>
    ELSE <<>>

\* random.choice(seq): pick is the random draw
Choice(seq, pick) == seq[((pick - 1) % Len(seq)) + 1]

PromptText == <<"#search?(yes/no)">>
RepromptText == <<"#answer-yes-or-no">>
DeclineText == <<"#wont-search">>
TypeSomethingText == <<"#type-something">>
TroubleText == <<"#trouble-understanding">>
HelloText == <<"#hello-person">>

(***************************************************************************)
(* ContextHandler: a deque(maxlen=window_size) of turns                    *)
(***************************************************************************)
Turn(role, text) == [role |-> role, text |-> text]

ContextHandler(window_size) == [window_size |-> window_size, context |-> <<>>]

\* a full deque that discards the new item instead of the oldest
DequeAppendKeepsOldest(d, maxlen, x) ==
    IF maxlen = 0 THEN d
    ELSE IF Len(d) >= maxlen THEN d
    ELSE Append(d, x)

\* deque.append on a bounded deque: a full deque discards from the left
DequeAppend(d, maxlen, x) ==
    IF maxlen = 0 THEN d
    ELSE IF Len(d) >= maxlen THEN Append(Tail(d), x)
    ELSE Append(d, x)

add_user_query(h, query) ==
    [h EXCEPT !.context = DequeAppend(h.context, h.window_size, Turn("user", query))]

add_bot_response(h, response) ==
    [h EXCEPT !.context = DequeAppend(h.context, h.window_size, Turn("bot", response))]

get_context(h) == h.context

(***************************************************************************)
(* TextPreprocessor.preprocess on a one-word message: the word lower-cased, *)
(* dropped when it is a stop word ("a" is the stop word among the messages) *)
(***************************************************************************)
CUSTOM_STOPWORDS == { <<"a">> }

preprocess(m) ==
    LET word == Lower(Strip(m)) IN
    IF word = <<>> \/ word \in CUSTOM_STOPWORDS THEN <<>> ELSE <<word>>

(***************************************************************************)
(* SVMIntentClassifier                                                     *)
(***************************************************************************)
\* SVMIntentClassifier.__init__; origin records who built the instance
\* ("init": ChatbotApp.__init__, "background"/"blocking": a retrain)
NewClassifier == [model |-> "None", vectorizer |-> "None", origin |-> "init"]

ModelOutputs ==
    { [label |-> "greeting", conf |-> 10], [label |-> "greeting", conf |-> 40],
      [label |-> "greeting", conf |-> 90], [label |-> "noresp", conf |-> 90] }

NoPrediction == [raised |-> FALSE, label |-> "-", conf |-> 0]

Prediction(raised, label, conf) == [raised |-> raised, label |-> label, conf |-> conf]

\* out is what model.predict / predict_proba give for a fitted model
predict_intent(c, tokens, out) ==
    IF c.model = "None" \/ c.vectorizer = "None" THEN Prediction(FALSE, "unknown", 0)
    ELSE IF tokens = <<>> THEN Prediction(FALSE, "default", 100)
    ELSE IF c.model = "unfitted" THEN Prediction(TRUE, "raise", 0)
    ELSE IF out.conf < NoMatchConfidence THEN Prediction(FALSE, "no_match", out.conf)
    ELSE Prediction(FALSE, out.label, out.conf)

(***************************************************************************)
(* ResponseHandler                                                         *)
(***************************************************************************)
\* what get_response passes to google_fallback at line 93: the context list
ContextArg == <<"#context-list">>

IsText(q) == q /= None /\ q /= ContextArg

\* e: the environment of one call
\*   d: ChatbotApp.data, flag: ENABLE_GOOGLE_FALLBACK, thr: CONFIDENCE_THRESHOLD,
\*   clf: the classifier instance predicting, out: the fitted model's output,
\*   person: a PERSON entity was extracted, fbOk: the event loop ran the search,
\*   pick: random.choice
Reply(response, searched, logged) ==
    [response |-> response, searched |-> searched, logged |-> logged]

\* query_google answers a str query; with anything else every attempt raises and
\* google_fallback substitutes a default response.  searched: the query
\* google_fallback was called with.
google_fallback(query, e) ==
    IF e.fbOk /\ IsText(query)
    THEN Reply(<<"#google">> \o query, query, None)
    ELSE Reply(Choice(DefaultResponses(e.d), e.pick), query, None)

\* the response map not consulted: every matched tag answered as if it had no
\* responses
get_response_without_map(intent_tag, context, e) ==
    IF e.person /\ intent_tag = "greeting" THEN Reply(HelloText, None, None)
    ELSE IF intent_tag \in {"unknown", "no_match"}
    THEN Reply(Choice(DefaultResponses(e.d), e.pick), None,
               IF context /= <<>> THEN context[Len(context)].text ELSE <<"unknown_query">>)
    ELSE IF e.flag THEN google_fallback(ContextArg, e)
    ELSE Reply(Choice(DefaultResponses(e.d), e.pick), None, None)

get_response(intent_tag, context, e) ==
    IF e.person /\ intent_tag = "greeting" THEN Reply(HelloText, None, None)
    ELSE IF intent_tag \in {"unknown", "no_match"}
    THEN Reply(Choice(DefaultResponses(e.d), e.pick), None,
               IF context /= <<>> THEN context[Len(context)].text ELSE <<"unknown_query">>)
    ELSE IF intent_tag = "default"
    THEN Reply(Choice(DefaultResponses(e.d), e.pick), None, None)
    ELSE IF ResponseMap(e.d, intent_tag) /= <<>>
    THEN Reply(Choice(ResponseMap(e.d, intent_tag), e.pick), None, None)
    ELSE IF e.flag THEN google_fallback(ContextArg, e)
    ELSE Reply(Choice(DefaultResponses(e.d), e.pick), None, None)

(***************************************************************************)
(* ChatbotApp.process_input, in the pieces a thread executes one by one    *)
(***************************************************************************)
NewSession ==
    [context_handler |-> ContextHandler(CONTEXT_WINDOW_SIZE),
     google_search_confirmation_pending |-> FALSE,
     session_google_search_preference |-> "None",
     last_unknown_query |-> None]

Result(response, intent, confidence) ==
    [response |-> response, intent |-> intent, confidence |-> confidence]

NoResult == Result(None, "-", 0)

\* no dict returned: the exception leaves process_input
Raised == Result(None, "raised", 0)

\* what a piece gives: the session after it, the returned dict, the query
\* google_fallback was called with and the query logged as unmatched (None: none)
Outcome(s, result, searched, logged) ==
    [session |-> s, result |-> result, searched |-> searched, logged |-> logged]

\* the test without the trimming
is_blank_untrimmed(m) == m = <<>>

\* lines 166-167
is_blank(m) == Strip(m) = <<>>

reject_blank(s) == Outcome(s, Result(TypeSomethingText, "none", 100), None, None)

\* the "yes" branch forgetting to clear the pending query
confirm_yes_write_keeps_query(s) ==
    [s EXCEPT !.session_google_search_preference = "True",
              !.google_search_confirmation_pending = FALSE]

\* lines 172-173
confirm_yes_flags(s) ==
    [s EXCEPT !.session_google_search_preference = "True",
              !.google_search_confirmation_pending = FALSE]

\* line 175, after line 174 read the query
confirm_yes_take(s) == [s EXCEPT !.last_unknown_query = None]

\* lines 172-175
confirm_yes_write(s) == confirm_yes_take(confirm_yes_flags(s))

\* lines 177-182, query read at line 174
confirm_yes_finish(s, query, e) ==
    LET reply == google_fallback(query, e)
        h1 == add_user_query(s.context_handler, query)
        h2 == add_bot_response(h1, reply.response)
    IN Outcome([s EXCEPT !.context_handler = h2],
               Result(reply.response, "google_search", 100), reply.searched, None)

\* the "no" branch forgetting to clear the pending flag
confirm_no_keeps_flag(s, m) ==
    LET s1 == [s EXCEPT !.session_google_search_preference = "False",
                        !.last_unknown_query = None]
        h1 == add_user_query(s1.context_handler, m)
        h2 == add_bot_response(h1, DeclineText)
    IN Outcome([s1 EXCEPT !.context_handler = h2],
               Result(DeclineText, "default", 100), None, None)

\* lines 184-190
confirm_no(s, m) ==
    LET s1 == [s EXCEPT !.session_google_search_preference = "False",
                        !.google_search_confirmation_pending = FALSE,
                        !.last_unknown_query = None]
        h1 == add_user_query(s1.context_handler, m)
        h2 == add_bot_response(h1, DeclineText)
    IN Outcome([s1 EXCEPT !.context_handler = h2],
               Result(DeclineText, "default", 100), None, None)

\* the re-prompt dropping the pending query
confirm_other_drops_query(s) ==
    Outcome([s EXCEPT !.last_unknown_query = None],
            Result(RepromptText, "unknown_google_confirm", 100), None, None)

\* lines 192-193
confirm_other(s) ==
    Outcome(s, Result(RepromptText, "unknown_google_confirm", 100), None, None)

\* lines 170-193
confirmation(s, m, e) ==
    IF Lower(m) \in YesWords
    THEN confirm_yes_finish(confirm_yes_write(s), s.last_unknown_query, e)
    ELSE IF Lower(m) \in NoWords THEN confirm_no(s, m)
    ELSE confirm_other(s)

\* line 195
append_user(s, m) == [s EXCEPT !.context_handler = add_user_query(@, m)]

\* the gate left out: the classifier's label is kept whatever the confidence
classify_without_gate(pred, thr) ==
    IF pred.raised \/ thr = Unset THEN [error |-> TRUE, intent |-> "error"]
    ELSE [error |-> FALSE, intent |-> pred.label]

\* lines 198-205: the prediction, the threshold gate and the except clause.
\* Reading an unset CONFIDENCE_THRESHOLD raises AttributeError inside the try.
classify(pred, thr) ==
    IF pred.raised \/ thr = Unset THEN [error |-> TRUE, intent |-> "error"]
    ELSE IF pred.conf < thr THEN [error |-> FALSE, intent |-> "unknown"]
    ELSE [error |-> FALSE, intent |-> pred.label]

\* no except clause: the exception leaves process_input
prediction_error_uncaught(s) == Outcome(s, Raised, None, None)

\* line 205
prediction_error(s) == Outcome(s, Result(TroubleText, "error", 0), None, None)

\* the prompt recorded as a bot turn, like every other response
resolve_recording_prompt(s, m, predicted_intent, confidence, e) ==
    IF predicted_intent = "unknown" /\ s.session_google_search_preference = "None"
    THEN Outcome([s EXCEPT !.google_search_confirmation_pending = TRUE,
                           !.last_unknown_query = m,
                           !.context_handler = add_bot_response(@, PromptText)],
                 Result(PromptText, "unknown_google_confirm", confidence), None, None)
    ELSE LET reply ==
                 IF predicted_intent = "unknown"
                 THEN IF s.session_google_search_preference = "True"
                      THEN google_fallback(m, e)
                      ELSE get_response("default", get_context(s.context_handler), e)
                 ELSE get_response(predicted_intent, get_context(s.context_handler), e)
         IN Outcome([s EXCEPT !.context_handler = add_bot_response(@, reply.response)],
                    Result(reply.response, predicted_intent, confidence),
                    reply.searched, reply.logged)

\* every unknown turn prompting, whatever the session's preference
resolve_always_prompting(s, m, predicted_intent, confidence, e) ==
    IF predicted_intent = "unknown"
    THEN Outcome([s EXCEPT !.google_search_confirmation_pending = TRUE,
                           !.last_unknown_query = m],
                 Result(PromptText, "unknown_google_confirm", confidence), None, None)
    ELSE LET reply == get_response(predicted_intent, get_context(s.context_handler), e)
         IN Outcome([s EXCEPT !.context_handler = add_bot_response(@, reply.response)],
                    Result(reply.response, predicted_intent, confidence),
                    reply.searched, reply.logged)

\* lines 212-215: the else branch of the preference tests
resolve_prompt(s, m, confidence) ==
    Outcome([s EXCEPT !.google_search_confirmation_pending = TRUE,
                      !.last_unknown_query = m],
            Result(PromptText, "unknown_google_confirm", confidence), None, None)

\* lines 207-222
resolve(s, m, predicted_intent, confidence, e) ==
    IF predicted_intent = "unknown" /\ s.session_google_search_preference = "None"
    THEN resolve_prompt(s, m, confidence)
    ELSE LET reply ==
                 IF predicted_intent = "unknown"
                 THEN IF s.session_google_search_preference = "True"
                      THEN google_fallback(m, e)
                      ELSE get_response("default", get_context(s.context_handler), e)
                 ELSE get_response(predicted_intent, get_context(s.context_handler), e)
         IN Outcome([s EXCEPT !.context_handler = add_bot_response(@, reply.response)],
                    Result(reply.response, predicted_intent, confidence),
                    reply.searched, reply.logged)

\* what a whole call gives: its outcome and what predict_intent returned
Ran(outcome, pred) == [outcome |-> outcome, pred |-> pred]

\* lines 160-222 as one call on session s
process_input(s, m, e) ==
    IF is_blank(m)
    THEN Ran(reject_blank(s), NoPrediction)
    ELSE IF s.google_search_confirmation_pending
    THEN Ran(confirmation(s, m, e), NoPrediction)
    ELSE LET s1 == append_user(s, m)
             pred == predict_intent(e.clf, preprocess(m), e.out)
             gate == classify(pred, e.thr)
         IN IF gate.error THEN Ran(prediction_error(s1), pred)
            ELSE Ran(resolve(s1, m, gate.intent, pred.conf, e), pred)

(***************************************************************************)
(* Loading and training a classifier                                       *)
(***************************************************************************)
ModelFiles == {"both", "model_only", "none"}

\* SVMIntentClassifier.load_model: the model is unpickled before the vectorizer
svm_load_model(c, files) ==
    IF files = "both"
    THEN [classifier |-> [c EXCEPT !.model = "fitted", !.vectorizer = "fit"],
          returned |-> "True"]
    ELSE IF files = "model_only"
    THEN [classifier |-> [c EXCEPT !.model = "fitted"], returned |-> "False"]
    ELSE [classifier |-> c, returned |-> "False"]

\* IntentClassifier.load_model delegates and returns nothing
load_model(c, files) ==
    [classifier |-> svm_load_model(c, files).classifier, returned |-> "None"]

Truthy(v) == v = "True"

\* SVMIntentClassifier.train_model, one step of it on instance c at position pc.
\* fail: the step raises (scikit-learn or the file system).
TrainPcs == {"train", "vectorized", "assigned"}

train_step(c, pc, d, fail) ==
    IF pc = "train" /\ d = "empty"
    THEN [classifier |-> c, pc |-> "returned"]
    ELSE IF fail
    THEN [classifier |-> c, pc |-> "raised"]
    ELSE IF pc = "train"
    THEN [classifier |-> [c EXCEPT !.vectorizer = "fit"], pc |-> "vectorized"]
    ELSE IF pc = "vectorized"
    THEN [classifier |-> [c EXCEPT !.model = "unfitted"], pc |-> "assigned"]
    ELSE [classifier |-> [c EXCEPT !.model = "fitted"], pc |-> "returned"]

(***************************************************************************)
(* State                                                                   *)
(***************************************************************************)
Threads == {"gui", "api"}

Thresholds == {5, 50}

Job(kind) == [kind |-> kind, pc |-> "start", inst |-> 0]

DoneJob(kind) == [kind |-> kind, pc |-> "done", inst |-> 0]

IdleThread ==
    [pc |-> "idle", user |-> "-", input |-> None, sid |-> 0, clf |-> 0,
     query |-> None, intent |-> "-", confidence |-> 0, result |-> NoResult]

\* the confirmation state of a session dict
Flags(s) ==
    [google_search_confirmation_pending |-> s.google_search_confirmation_pending,
     session_google_search_preference |-> s.session_google_search_preference,
     last_unknown_query |-> s.last_unknown_query]

NoCall ==
    [user |-> "-", input |-> None, sid |-> 0, before |-> Flags(NewSession),
     thr |-> Unset, pred |-> NoPrediction,
     result |-> NoResult, searched |-> None, logged |-> None]

\* an instance no reference holds any more
Freed == [model |-> "freed", vectorizer |-> "freed", origin |-> "freed"]

\* the instances still referenced: by the application, a running retrain or a
\* prediction in flight
Collect(cl, ic, jb, thr) ==
    [i \in 1..Len(cl) |->
        IF \/ i = ic
           \/ \E j \in 1..Len(jb) : jb[j].inst = i
           \/ \E t \in Threads : thr[t].clf = i
        THEN cl[i] ELSE Freed]

\* where a new instance is placed
Alloc(cl) ==
    IF \E i \in 1..Len(cl) : cl[i] = Freed
    THEN CHOOSE i \in 1..Len(cl) : cl[i] = Freed /\ \A k \in 1..(i - 1) : cl[k] /= Freed
    ELSE Len(cl) + 1

Place(cl, i, c) == IF i > Len(cl) THEN Append(cl, c) ELSE [cl EXCEPT ![i] = c]

\* ChatbotApp.__init__: data loaded, the classifier built and load_model tried;
\* initial training starts in the background unless load_model's value is truthy
InitApp ==
    /\ data \in {"catalog", "empty"}
    /\ config = [CONFIDENCE_THRESHOLD |-> Unset, ENABLE_GOOGLE_FALLBACK |-> TRUE]
    /\ \E files \in ModelFiles :
          LET l == load_model(NewClassifier, files) IN
          /\ classifiers = <<l.classifier>>
          /\ jobs = IF Truthy(l.returned) THEN <<>> ELSE <<Job("background")>>
    /\ intent_classifier = 1
    /\ sessions = <<>>
    /\ user_sessions = [u \in Users |-> 0]
    /\ ncalls = 0
    /\ last = NoCall
    /\ th = [t \in Threads |-> IdleThread]

\* the callers holding a list returned by get_context()
ListOwners == {"h1", "h2"}

NoList == [held |-> FALSE, items |-> <<>>]

NotGot == [called |-> FALSE, value |-> <<>>, clean |-> FALSE]

InitSnap ==
    /\ dicts = <<>>
    /\ lists = [l \in ListOwners |-> NoList]
    /\ got = NotGot

InitCtx ==
    /\ handler = ContextHandler(CONTEXT_WINDOW_SIZE)
    /\ appended = <<>>
    /\ window = ContextHandler(CONTEXT_WINDOW_SIZE)
    /\ InitSnap

\* the callers of google_fallback
Callers == {"c1", "c2"}

IdleSearch ==
    [pc |-> "idle", query |-> None, attempts |-> 0, failures |-> 0, wake |-> 0,
     source |-> "-", results |-> None]

\* utils.web_search as imported: an empty cache, no _last_call attribute
InitWeb ==
    /\ clock = 0
    /\ advances = 0
    /\ last_call = Unset
    /\ cache = {}
    /\ searches = [c \in Callers |-> IdleSearch]
    /\ outbound = <<>>
    /\ nsearches = 0

\* a request to POST /chat: its X-API-Key header (None: no such header), the
\* status answered and the user_id the endpoint ran with
Request(n, x_api_key, status, user_id) ==
    [n |-> n, x_api_key |-> x_api_key, status |-> status, user_id |-> user_id]

\* the database as init_db creates it, no request made yet
InitApi ==
    /\ api_keys = <<>>
    /\ api_sessions = <<>>
    /\ today = 0
    /\ http = Request(0, None, 0, "None")

Init == InitApp /\ InitCtx /\ InitWeb /\ InitApi

\* the application constructed with its catalog and its saved model files
InitLoaded ==
    /\ InitApp
    /\ data = "catalog"
    /\ classifiers[intent_classifier].model = "fitted"
    /\ classifiers[intent_classifier].vectorizer = "fit"

InitConversation == InitLoaded /\ InitCtx /\ InitWeb /\ InitApi

\* the inputs of one call that are not arguments: what the classifier in use
\* is and answers, the entities found, the search and the random draw
Inputs == [clf : {"None", "unfitted", "fitted"}, out : ModelOutputs,
           person : BOOLEAN, fbOk : BOOLEAN, pick : Picks]

NoInputs == [clf |-> "None", out |-> [label |-> "greeting", conf |-> 10],
             person |-> FALSE, fbOk |-> TRUE, pick |-> 1]

\* the inputs the normal branch reads: the model's output only when a fitted
\* model gives one, a PERSON entity only where get_response looks for one
NormalInputs ==
    {i \in Inputs : /\ i.clf /= "fitted" => i.out = NoInputs.out
                    /\ i.person => (i.clf = "fitted" /\ i.out.label = "greeting")}

\* the inputs the "yes" branch reads: the search and the random draw
YesInputs ==
    {i \in Inputs : i.clf = NoInputs.clf /\ i.out = NoInputs.out /\ ~i.person}

\* only the inputs the branch taken reads vary
InputsFor(s, m) ==
    IF is_blank(m) THEN {NoInputs}
    ELSE IF s.google_search_confirmation_pending
    THEN IF Lower(m) \in YesWords
         THEN YesInputs
         ELSE {NoInputs}
    ELSE NormalInputs

\* a classifier instance as a retrain or a load can leave it
ClassifierIn(state) ==
    IF state = "fitted" THEN [NewClassifier EXCEPT !.model = "fitted", !.vectorizer = "fit"]
    ELSE IF state = "unfitted"
    THEN [NewClassifier EXCEPT !.model = "unfitted", !.vectorizer = "fit"]
    ELSE NewClassifier

Env(clf, i) ==
    [d |-> data, flag |-> config.ENABLE_GOOGLE_FALLBACK,
     thr |-> config.CONFIDENCE_THRESHOLD, clf |-> clf,
     out |-> i.out, person |-> i.person, fbOk |-> i.fbOk, pick |-> i.pick]

(***************************************************************************)
(* One conversation: each call runs to completion.  The classifier a call  *)
(* finds active is an input: retrains leave it fitted, never fitted, or    *)
(* with a model assigned and not fitted.                                   *)
(***************************************************************************)
Quiet == \A t \in Threads : th[t].pc = "idle"

\* the GUI thread is in no handler: it is not inside process_input and runs no
\* blocking retrain
GuiFree ==
    /\ th["gui"].pc = "idle"
    /\ \A j \in 1..Len(jobs) : jobs[j].kind = "blocking" => jobs[j].pc = "done"

\* ChatbotApp.get_or_create_session, as one step
get_or_create_session(ss, us, u) ==
    IF us[u] = 0
    THEN [sessions |-> Append(ss, NewSession),
          user_sessions |-> [us EXCEPT ![u] = Len(ss) + 1],
          sid |-> Len(ss) + 1]
    ELSE [sessions |-> ss, user_sessions |-> us, sid |-> us[u]]

\* ChatbotApp.process_input(u, m)
ProcessInput(u, m, i) ==
    /\ Quiet
    /\ ncalls < MaxCalls
    /\ ncalls' = ncalls + 1
    /\ \E g \in {get_or_create_session(sessions, user_sessions, u)} :
       \E r \in {process_input(g.sessions[g.sid], m, Env(ClassifierIn(i.clf), i))} :
          /\ sessions' = [g.sessions EXCEPT ![g.sid] = r.outcome.session]
          /\ user_sessions' = g.user_sessions
          /\ last' = [user |-> u, input |-> m, sid |-> g.sid,
                      before |-> Flags(g.sessions[g.sid]),
                      thr |-> config.CONFIDENCE_THRESHOLD, pred |-> r.pred,
                      result |-> r.outcome.result, searched |-> r.outcome.searched,
                      logged |-> r.outcome.logged]
    /\ UNCHANGED <<data, config, classifiers, intent_classifier, jobs, th, ctxVars, webVars, apiVars>>

\* SettingsTab.update_confidence_threshold(value)
UpdateConfidenceThreshold(value) ==
    /\ GuiFree
    /\ config.CONFIDENCE_THRESHOLD /= value
    /\ config' = [config EXCEPT !.CONFIDENCE_THRESHOLD = value]
    /\ UNCHANGED <<data, classifiers, intent_classifier, jobs, sessions,
                   user_sessions, ncalls, last, th, ctxVars, webVars, apiVars>>

\* SettingsTab.toggle_google_search(state)
ToggleGoogleSearch(is_enabled) ==
    /\ GuiFree
    /\ config.ENABLE_GOOGLE_FALLBACK /= is_enabled
    /\ config' = [config EXCEPT !.ENABLE_GOOGLE_FALLBACK = is_enabled]
    /\ UNCHANGED <<data, classifiers, intent_classifier, jobs, sessions,
                   user_sessions, ncalls, last, th, ctxVars, webVars, apiVars>>

Settings ==
    \/ \E value \in Thresholds : UpdateConfidenceThreshold(value)
    \/ \E is_enabled \in BOOLEAN : ToggleGoogleSearch(is_enabled)

SessionOf(u) == IF user_sessions[u] = 0 THEN NewSession ELSE sessions[user_sessions[u]]

Call ==
    \E u \in {"admin_user"}, m \in Messages :
        \E i \in InputsFor(SessionOf(u), m) : ProcessInput(u, m, i)

Next == Call \/ Settings

Spec == InitConversation /\ [][Next]_vars

(***************************************************************************)
(* The ContextHandler on its own                                           *)
(***************************************************************************)
ContextTexts == {<<"a">>, <<"N">>}

InitContext ==
    /\ InitLoaded
    /\ handler \in {ContextHandler(n) : n \in 0..MaxWindow}
    /\ appended = <<>>
    /\ window = ContextHandler(CONTEXT_WINDOW_SIZE)
    /\ InitSnap
    /\ InitWeb
    /\ InitApi

\* ContextHandler.add_user_query(query)
AddUserQuery(query) ==
    /\ Len(appended) < MaxAppends
    /\ handler' = add_user_query(handler, query)
    /\ appended' = Append(appended, Turn("user", query))
    /\ UNCHANGED <<appVars, webVars, apiVars, snapVars>>

\* ContextHandler.add_bot_response(response)
AddBotResponse(response) ==
    /\ Len(appended) < MaxAppends
    /\ handler' = add_bot_response(handler, response)
    /\ appended' = Append(appended, Turn("bot", response))
    /\ UNCHANGED <<appVars, webVars, apiVars, snapVars>>

\* ContextHandler.clear_context()
ClearContext ==
    /\ appended /= <<>>
    /\ handler' = [handler EXCEPT !.context = <<>>]
    /\ appended' = <<>>
    /\ UNCHANGED <<appVars, webVars, apiVars, snapVars>>

NextContext ==
    \/ \E query \in ContextTexts : AddUserQuery(query)
    \/ \E response \in ContextTexts : AddBotResponse(response)
    \/ ClearContext

SpecContext == InitContext /\ [][NextContext]_vars

(***************************************************************************)
(* Threads: the GUI thread and the API server thread inside process_input, *)
(* statement by statement, and the retrain jobs                            *)
(***************************************************************************)
ThreadMessages == { <<"Y", "e", "s">>, <<"N">> }

ThreadOutputs == { [label |-> "greeting", conf |-> 40], [label |-> "greeting", conf |-> 90] }

\* a thread took its step: its position and locals change, a finished piece
\* leaves its result
Finish(t, result) == [th EXCEPT ![t].pc = "done", ![t].result = result]

\* process_input is entered and get_or_create_session tests the map (line 113).
\* The chat tester calls with its fixed user id.
Begin(t, u, m) ==
    /\ th[t].pc = "idle"
    /\ t = "gui" => (u = "admin_user" /\ GuiFree)
    /\ ncalls < MaxCalls
    /\ ncalls' = ncalls + 1
    /\ th' = [th EXCEPT ![t] = [IdleThread EXCEPT
                  !.pc = IF user_sessions[u] = 0 THEN "create" ELSE "fetch",
                  !.user = u, !.input = m]]
    /\ UNCHANGED <<data, config, classifiers, intent_classifier, jobs, sessions,
                   user_sessions, last, ctxVars, webVars, apiVars>>

\* get_or_create_session, lines 114-119: the new dict is stored under the user
SessionCreate(t) ==
    /\ th[t].pc = "create"
    /\ sessions' = Append(sessions, NewSession)
    /\ user_sessions' = [user_sessions EXCEPT ![th[t].user] = Len(sessions) + 1]
    /\ th' = [th EXCEPT ![t].pc = "fetch"]
    /\ UNCHANGED <<data, config, classifiers, intent_classifier, jobs, ncalls,
                   last, ctxVars, webVars, apiVars>>

\* get_or_create_session, line 121: the dict now stored under the user is returned
SessionReturn(t) ==
    /\ th[t].pc = "fetch"
    /\ th' = [th EXCEPT ![t].pc = "dispatch", ![t].sid = user_sessions[th[t].user]]
    /\ UNCHANGED <<data, config, classifiers, intent_classifier, jobs, sessions,
                   user_sessions, ncalls, last, ctxVars, webVars, apiVars>>

\* process_input, lines 166-195: the blank test, the confirmation flow up to
\* its writes, or the user turn
Dispatch(t) ==
    /\ th[t].pc = "dispatch"
    /\ LET s == sessions[th[t].sid]
           m == th[t].input
       IN IF is_blank(m)
          THEN /\ th' = Finish(t, reject_blank(s).result)
               /\ UNCHANGED sessions
          ELSE IF s.google_search_confirmation_pending /\ Lower(m) \in YesWords
          THEN /\ sessions' = [sessions EXCEPT ![th[t].sid] = confirm_yes_flags(s)]
               /\ th' = [th EXCEPT ![t].pc = "take"]
          ELSE IF s.google_search_confirmation_pending
          THEN \E o \in {IF Lower(m) \in NoWords THEN confirm_no(s, m) ELSE confirm_other(s)} :
                  /\ sessions' = [sessions EXCEPT ![th[t].sid] = o.session]
                  /\ th' = Finish(t, o.result)
          ELSE /\ sessions' = [sessions EXCEPT ![th[t].sid] = append_user(s, m)]
               /\ th' = [th EXCEPT ![t].pc = "predict"]
    /\ UNCHANGED <<data, config, classifiers, intent_classifier, jobs,
                   user_sessions, ncalls, last, ctxVars, webVars, apiVars>>

\* process_input, lines 174-175: the pending query is read and cleared
TakeQuery(t) ==
    /\ th[t].pc = "take"
    /\ sessions' = [sessions EXCEPT ![th[t].sid] = confirm_yes_take(@)]
    /\ th' = [th EXCEPT ![t].pc = "search",
                        ![t].query = sessions[th[t].sid].last_unknown_query]
    /\ UNCHANGED <<data, config, classifiers, intent_classifier, jobs,
                   user_sessions, ncalls, last, ctxVars, webVars, apiVars>>

\* process_input, lines 177-182: the search for the pending query and both turns
Search(t, i) ==
    /\ th[t].pc = "search"
    /\ \E o \in {confirm_yes_finish(sessions[th[t].sid], th[t].query, Env(NewClassifier, i))} :
          /\ sessions' = [sessions EXCEPT ![th[t].sid] = o.session]
          /\ th' = Finish(t, o.result)
    /\ UNCHANGED <<data, config, classifiers, intent_classifier, jobs,
                   user_sessions, ncalls, last, ctxVars, webVars, apiVars>>

\* process_input, line 199: self.intent_classifier is read, predict_intent is
\* entered on that instance
PredictBegin(t) ==
    /\ th[t].pc = "predict"
    /\ th' = [th EXCEPT ![t].pc = "predicting", ![t].clf = intent_classifier]
    /\ UNCHANGED <<data, config, classifiers, intent_classifier, jobs, sessions,
                   user_sessions, ncalls, last, ctxVars, webVars, apiVars>>

\* process_input, lines 196-205: predict_intent on the instance read, the
\* threshold gate, the except clause
Predict(t, out) ==
    /\ th[t].pc = "predicting"
    /\ \E pred \in {predict_intent(classifiers[th[t].clf], preprocess(th[t].input), out)} :
       \E gate \in {classify(pred, config.CONFIDENCE_THRESHOLD)} :
          /\ th' = IF gate.error
                   THEN [Finish(t, prediction_error(sessions[th[t].sid]).result)
                            EXCEPT ![t].clf = 0]
                   ELSE [th EXCEPT ![t].pc = "resolve", ![t].clf = 0,
                                   ![t].intent = gate.intent,
                                   ![t].confidence = pred.conf]
    /\ classifiers' = Collect(classifiers, intent_classifier, jobs, th')
    /\ UNCHANGED <<data, config, intent_classifier, jobs, sessions,
                   user_sessions, ncalls, last, ctxVars, webVars, apiVars>>

\* process_input, lines 207-222: the tests of the intent and of the session's
\* preference, and every branch but the prompt's
Resolve(t, i) ==
    /\ th[t].pc = "resolve"
    /\ IF /\ th[t].intent = "unknown"
          /\ sessions[th[t].sid].session_google_search_preference = "None"
       THEN /\ th' = [th EXCEPT ![t].pc = "prompt"]
            /\ UNCHANGED sessions
       ELSE \E o \in {resolve(sessions[th[t].sid], th[t].input, th[t].intent,
                               th[t].confidence, Env(NewClassifier, i))} :
               /\ sessions' = [sessions EXCEPT ![th[t].sid] = o.session]
               /\ th' = Finish(t, o.result)
    /\ UNCHANGED <<data, config, classifiers, intent_classifier, jobs,
                   user_sessions, ncalls, last, ctxVars, webVars, apiVars>>

\* process_input, lines 212-215: the prompt branch writes the session
Prompt(t) ==
    /\ th[t].pc = "prompt"
    /\ \E o \in {resolve_prompt(sessions[th[t].sid], th[t].input, th[t].confidence)} :
          /\ sessions' = [sessions EXCEPT ![th[t].sid] = o.session]
          /\ th' = Finish(t, o.result)
    /\ UNCHANGED <<data, config, classifiers, intent_classifier, jobs,
                   user_sessions, ncalls, last, ctxVars, webVars, apiVars>>

\* process_input returns
Return(t) ==
    /\ th[t].pc = "done"
    /\ th' = [th EXCEPT ![t] = IdleThread]
    /\ UNCHANGED <<data, config, classifiers, intent_classifier, jobs, sessions,
                   user_sessions, ncalls, last, ctxVars, webVars, apiVars>>

ThreadStep ==
    \E t \in Threads :
        \/ \E u \in Users, m \in ThreadMessages : Begin(t, u, m)
        \/ SessionCreate(t)
        \/ SessionReturn(t)
        \/ Dispatch(t)
        \/ TakeQuery(t)
        \/ Search(t, NoInputs)
        \/ PredictBegin(t)
        \/ \E out \in ThreadOutputs : Predict(t, out)
        \/ Resolve(t, NoInputs)
        \/ Prompt(t)
        \/ Return(t)

\* ChatbotApp.retrain_model(background), from a handler of the GUI thread
RetrainModel(background) ==
    /\ GuiFree
    /\ Len(jobs) < MaxRetrains
    /\ jobs' = Append(jobs, Job(IF background THEN "background" ELSE "blocking"))
    /\ UNCHANGED <<data, config, classifiers, intent_classifier, sessions,
                   user_sessions, ncalls, last, th, ctxVars, webVars, apiVars>>

\* the background retrain assigning self.intent_classifier before training
retrain_create_published(kind, ic, at) == at

\* IntentClassifier(self.config): line 306 binds it to a local, line 324 to
\* self.intent_classifier
retrain_create(kind, ic, at) == IF kind = "blocking" THEN at ELSE ic

RetrainCreate(j) ==
    /\ jobs[j].pc = "start"
    /\ \E at \in {Alloc(classifiers)} :
          /\ jobs' = [jobs EXCEPT ![j].pc = "train", ![j].inst = at]
          /\ intent_classifier' = retrain_create(jobs[j].kind, intent_classifier, at)
          /\ classifiers' = Collect(Place(classifiers, at,
                                          [NewClassifier EXCEPT !.origin = jobs[j].kind]),
                                    intent_classifier', jobs', th)
    /\ UNCHANGED <<data, config, sessions, user_sessions, ncalls, last, th, ctxVars, webVars, apiVars>>

\* train_model on the job's instance, one step
RetrainTrain(j, fail) ==
    /\ jobs[j].pc \in TrainPcs
    /\ \E r \in {train_step(classifiers[jobs[j].inst], jobs[j].pc, data, fail)} :
          /\ classifiers' = [classifiers EXCEPT ![jobs[j].inst] = r.classifier]
          /\ jobs' = [jobs EXCEPT ![j].pc = r.pc]
    /\ UNCHANGED <<data, config, intent_classifier, sessions, user_sessions,
                   ncalls, last, th, ctxVars, webVars, apiVars>>

\* line 309: the hot swap of a background retrain whose train_model returned;
\* a blocking retrain has nothing left to assign
retrain_swap(kind, ic, inst) == IF kind = "background" THEN inst ELSE ic

RetrainSwap(j) ==
    /\ jobs[j].pc = "returned"
    /\ intent_classifier' = retrain_swap(jobs[j].kind, intent_classifier, jobs[j].inst)
    /\ jobs' = [jobs EXCEPT ![j] = DoneJob(jobs[j].kind)]
    /\ classifiers' = Collect(classifiers, intent_classifier', jobs', th)
    /\ UNCHANGED <<data, config, sessions, user_sessions, ncalls, last, th, ctxVars, webVars, apiVars>>

\* lines 312-315 and 329-332: the except clause logs and the job ends
RetrainFailed(j) ==
    /\ jobs[j].pc = "raised"
    /\ jobs' = [jobs EXCEPT ![j] = DoneJob(jobs[j].kind)]
    /\ classifiers' = Collect(classifiers, intent_classifier, jobs', th)
    /\ UNCHANGED <<data, config, intent_classifier, sessions, user_sessions,
                   ncalls, last, th, ctxVars, webVars, apiVars>>

RetrainStep ==
    \/ \E background \in BOOLEAN : RetrainModel(background)
    \/ \E j \in 1..Len(jobs) :
          \/ RetrainCreate(j)
          \/ \E fail \in BOOLEAN : RetrainTrain(j, fail)
          \/ RetrainSwap(j)
          \/ RetrainFailed(j)

Configure == \E value \in {50} : UpdateConfidenceThreshold(value)

NextThreads == ThreadStep \/ Configure

SpecThreads == Init /\ [][NextThreads]_vars

(***************************************************************************)
(* Retrains: the API thread predicting while retrain jobs run.  The        *)
(* threshold is left as Config leaves it, so each prediction ends in the   *)
(* except clause.                                                          *)
(***************************************************************************)
PredictionStep ==
    \E t \in {"api"} :
        \/ \E u \in {"admin_user"}, m \in {<<"N">>} : Begin(t, u, m)
        \/ SessionCreate(t)
        \/ SessionReturn(t)
        \/ Dispatch(t)
        \/ PredictBegin(t)
        \/ \E out \in {NoInputs.out} : Predict(t, out)
        \/ Return(t)

NextRetrain == PredictionStep \/ RetrainStep

SpecRetrain == Init /\ [][NextRetrain]_vars

(***************************************************************************)
(* Properties of one conversation (Spec)                                   *)
(***************************************************************************)
Called == last.user /= "-"

\* the last call found its session in the Normal state and the message non-blank
NormalCall ==
    /\ Called
    /\ ~is_blank(last.input)
    /\ ~last.before.google_search_confirmation_pending

\* the last call found its session in ConfirmationPending
PendingCall == Called /\ last.before.google_search_confirmation_pending

\* the last call's message was classified as unknown
ClassifiedUnknown ==
    /\ NormalCall
    /\ ~last.pred.raised
    /\ last.thr /= Unset
    /\ (last.pred.conf < last.thr \/ last.pred.label = "unknown")

\* this step is a process_input call
CallStep == ncalls' = ncalls + 1

SessionAfter == sessions[last.sid]

LastTurns(h, n) ==
    IF Len(h.context) <= n THEN h.context
    ELSE SubSeq(h.context, Len(h.context) - n + 1, Len(h.context))

\* C1: a non-blank message handled in the Normal state whose prediction has a
\* confidence below the configured threshold is never answered with a catalog
\* tag as its intent, whatever label the classifier returned.
C1_BelowThresholdNeverCatalogTag ==
    (NormalCall /\ ~last.pred.raised /\ last.thr /= Unset /\ last.pred.conf < last.thr)
        => last.result.intent \notin CatalogTags

\* the classifier returned a catalog tag with a confidence below the threshold
C1_Witness ==
    /\ NormalCall
    /\ last.thr /= Unset
    /\ last.pred.label \in CatalogTags
    /\ last.pred.conf < last.thr
    /\ last.result.intent = "unknown_google_confirm"

\* C2: in the Normal state a non-blank message classified as unknown, in a
\* session without a search preference, makes the session ConfirmationPending
\* with the raw message as pending query, returns the yes/no prompt with intent
\* "unknown_google_confirm", and the context gains the user turn and no bot turn.
C2_UnknownAsksForConfirmation ==
    [][(CallStep /\ ClassifiedUnknown'
          /\ last'.before.session_google_search_preference = "None")
        => /\ SessionAfter'.google_search_confirmation_pending
           /\ SessionAfter'.last_unknown_query = last'.input
           /\ last'.result.intent = "unknown_google_confirm"
           /\ last'.result.response = PromptText
           /\ SessionAfter'.context_handler =
                  add_user_query(SessionOf(last'.user).context_handler, last'.input)]_vars

\* a capitalised message below the threshold left its session pending
C2_Witness ==
    /\ ClassifiedUnknown
    /\ last.before.session_google_search_preference = "None"
    /\ last.input = <<"Y", "e", "s">>
    /\ SessionAfter.google_search_confirmation_pending
    /\ SessionAfter.last_unknown_query = <<"Y", "e", "s">>
    /\ LastTurns(SessionAfter.context_handler, 1) = <<Turn("user", <<"Y", "e", "s">>)>>

\* the last call answered "yes" (lower-cased) to the confirmation prompt
AnsweredYes == PendingCall /\ ~is_blank(last.input) /\ Lower(last.input) \in YesWords

\* C3: in ConfirmationPending with pending query Q, an input that lower-cases
\* to "yes" or "y" sets the preference to true, clears the flag and the pending
\* query, calls the Google fallback with Q, appends Q and the fallback response
\* to the context and returns intent "google_search"; a "yes" right after it is
\* handled as a normal message: it is classified, is not answered with
\* "google_search" and no search for anything but that message is made.
C3_YesSearchesPendingQueryOnce ==
    [][/\ (CallStep /\ AnsweredYes')
          => /\ SessionAfter'.session_google_search_preference = "True"
             /\ ~SessionAfter'.google_search_confirmation_pending
             /\ SessionAfter'.last_unknown_query = None
             /\ last'.searched = sessions[last'.sid].last_unknown_query
             /\ last'.searched /= None
             /\ last'.result.intent = "google_search"
             /\ SessionAfter'.context_handler =
                    add_bot_response(
                        add_user_query(sessions[last'.sid].context_handler,
                                       sessions[last'.sid].last_unknown_query),
                        last'.result.response)
       /\ (CallStep /\ AnsweredYes /\ Lower(last'.input) \in YesWords)
          => /\ NormalCall'
             /\ last'.pred /= NoPrediction
             /\ last'.result.intent /= "google_search"
             /\ last'.searched \in {None, last'.input, ContextArg}]_vars

\* "Yes" answered the prompt for the pending query "N": the search was made for
\* "N" and both turns are the last of the context
C3_Witness ==
    /\ AnsweredYes
    /\ last.input = <<"Y", "e", "s">>
    /\ last.searched = <<"N">>
    /\ last.result = Result(<<"#google", "N">>, "google_search", 100)
    /\ SessionAfter.session_google_search_preference = "True"
    /\ LastTurns(SessionAfter.context_handler, 2) =
           <<Turn("user", <<"N">>), Turn("bot", <<"#google", "N">>)>>

\* the last call answered "no" (lower-cased) to the confirmation prompt
AnsweredNo == PendingCall /\ ~is_blank(last.input) /\ Lower(last.input) \in NoWords

\* C4: in ConfirmationPending an input that lower-cases to "no" or "n" sets the
\* preference to false, clears the flag and the pending query, calls no search,
\* appends the decline response to the context (after the answer itself) and
\* returns that response with intent "default".
C4_NoDeclinesSearch ==
    [][(CallStep /\ AnsweredNo')
        => /\ SessionAfter'.session_google_search_preference = "False"
           /\ ~SessionAfter'.google_search_confirmation_pending
           /\ SessionAfter'.last_unknown_query = None
           /\ last'.searched = None
           /\ last'.result.response = DeclineText
           /\ last'.result.intent = "default"
           /\ SessionAfter'.context_handler =
                  add_bot_response(
                      add_user_query(sessions[last'.sid].context_handler, last'.input),
                      DeclineText)]_vars

\* "N" answered the prompt: the decline response is the last turn
C4_Witness ==
    /\ AnsweredNo
    /\ last.input = <<"N">>
    /\ last.result.intent = "default"
    /\ SessionAfter.session_google_search_preference = "False"
    /\ LastTurns(SessionAfter.context_handler, 1) = <<Turn("bot", DeclineText)>>

\* the last call's input is neither yes/y nor no/n once lower-cased
OtherAnswer == Lower(last.input) \notin (YesWords \cup NoWords)

\* C5 as stated: in ConfirmationPending every input that is not yes/y/no/n
\* leaves the session as it was and is answered with the yes/no prompt and
\* intent "unknown_google_confirm".
C5_AnyOtherInputReprompts ==
    [][(CallStep /\ PendingCall' /\ OtherAnswer')
        => /\ sessions' = sessions
           /\ last'.result.intent = "unknown_google_confirm"
           /\ last'.result.response = RepromptText]_vars

\* C5: in ConfirmationPending every input that is not blank and does not
\* lower-case to yes/y/no/n leaves the session ConfirmationPending with the
\* same pending query, preference and context, and is answered with the yes/no
\* prompt and intent "unknown_google_confirm"; a blank input leaves the session
\* unchanged too and is answered with the prompt to type something, intent "none".
C5_NonBlankOtherInputReprompts ==
    [][(CallStep /\ PendingCall' /\ OtherAnswer')
        => /\ sessions' = sessions
           /\ SessionAfter'.google_search_confirmation_pending
           /\ IF is_blank(last'.input)
              THEN last'.result = Result(TypeSomethingText, "none", 100)
              ELSE last'.result = Result(RepromptText, "unknown_google_confirm", 100)]_vars

\* "yes " with a trailing space is not an answer: the prompt is issued again
C5_Witness ==
    /\ PendingCall
    /\ last.input = <<"y", "e", "s", " ">>
    /\ last.result.intent = "unknown_google_confirm"
    /\ SessionAfter.google_search_confirmation_pending
    /\ SessionAfter.last_unknown_query /= None

\* C6: when the classifier raises while process_input is predicting, the call
\* still returns a dict: intent "error", confidence 0.0 and the apology text.
C6_ClassifierErrorIsCaught ==
    (Called /\ last.pred.raised) => last.result = Result(TroubleText, "error", 0)

\* a model assigned and not fitted raised inside predict_intent
C6_Witness ==
    /\ NormalCall
    /\ last.pred.raised
    /\ last.result.intent = "error"
    /\ last.result.response = TroubleText

(***************************************************************************)
(* Properties of the context window (SpecContext)                          *)
(***************************************************************************)
LastOf(seq, n) ==
    IF Len(seq) <= n THEN seq ELSE SubSeq(seq, Len(seq) - n + 1, Len(seq))

\* C7: for every window size N and every sequence of appends, the window holds
\* at most N turns and get_context() is the last N appended turns, in the order
\* they were appended.
C7_WindowIsLastNTurns ==
    /\ Len(get_context(handler)) <= handler.window_size
    /\ get_context(handler) = LastOf(appended, handler.window_size)

\* more turns were appended than a window of two or more holds
C7_Witness ==
    /\ handler.window_size >= 2
    /\ Len(appended) > handler.window_size + 1
    /\ Len(get_context(handler)) = handler.window_size
    /\ get_context(handler)[1] = appended[Len(appended) - handler.window_size + 1]

(***************************************************************************)
(* Properties of concurrent calls (SpecThreads)                            *)
(***************************************************************************)
\* C8: every thread inside process_input holds the session object stored under
\* its user in the session map, and no more session objects were created than
\* there are users with a session.
C8_SingleSessionPerUser ==
    /\ \A t \in Threads : th[t].sid /= 0 => th[t].sid = user_sessions[th[t].user]
    /\ Len(sessions) <= Cardinality({u \in Users : user_sessions[u] /= 0})

\* C9: between a call's user turn and its bot response no other call appends
\* to the same context: while the call is classifying or resolving, the last
\* turn of its session's context is its own user turn.
C9_TurnsNotInterleaved ==
    \A t \in Threads :
        th[t].pc \in {"predict", "predicting", "resolve"}
            => LastTurns(sessions[th[t].sid].context_handler, 1)
                   = <<Turn("user", th[t].input)>>

(***************************************************************************)
(* Properties of retrains (SpecRetrain)                                    *)
(***************************************************************************)
Trained(c) == c.model = "fitted" /\ c.vectorizer = "fit"

C11_ActiveClassifierIsTrained ==
    classifiers[intent_classifier].origin = "background"
        => Trained(classifiers[intent_classifier])

(***************************************************************************)
(* The web search: ResponseHandler.google_fallback, its retry loop and     *)
(* utils.web_search.query_google.  Time is counted in ticks of half a      *)
(* second.  A caller runs from one await to the next in one step.          *)
(***************************************************************************)
GOOGLE_CACHE_DURATION == 3600
CacheTicks == GOOGLE_CACHE_DURATION * 2
RateLimitTicks == 2
NetworkTicks == 1
BackoffTicks == 2
retries == 2

SearchQueries == { <<"N">>, <<"n", " ">>, ContextArg }

\* how far the clock moves between two steps
Jumps == {1, CacheTicks - 1}

\* query_google, line 26
cache_key(query) == Strip(Lower(query))

NoEntry == [key |-> None, results |-> None, timestamp |-> Unset]

\* _cache.get(cache_key)
CacheGet(c, key) ==
    IF \E e \in c : e.key = key THEN CHOOSE e \in c : e.key = key ELSE NoEntry

\* _cache[cache_key] = {'results': results, 'timestamp': time.time()}
CachePut(c, key, results, now) ==
    {e \in c : e.key /= key} \cup {[key |-> key, results |-> results, timestamp |-> now]}

\* an entry served up to and including the age of the TTL
cache_hit_at_ttl(entry, now) == entry /= NoEntry /\ now - entry.timestamp <= CacheTicks

\* query_google, line 30: the entry is served
cache_hit(entry, now) == entry /= NoEntry /\ now - entry.timestamp < CacheTicks

\* query_google, lines 40-43: how long the caller sleeps before its call
rate_limit_sleep(lc, now) ==
    IF lc /= Unset /\ now - lc < RateLimitTicks THEN RateLimitTicks - (now - lc) ELSE 0

\* query_google, lines 53-56
GoogleResults(query) == <<"#result-for">> \o query

\* query_google, line 72
SorryResults == <<"#sorry-no-results">>

\* ResponseHandler.google_fallback is entered and the retry loop starts
StartFallback(c, query) ==
    /\ searches[c].pc = "idle"
    /\ nsearches < MaxSearches
    /\ nsearches' = nsearches + 1
    /\ searches' = [searches EXCEPT ![c] = [IdleSearch EXCEPT !.pc = "attempt",
                                                               !.query = query]]
    /\ UNCHANGED <<appVars, ctxVars, apiVars, clock, advances, last_call, cache, outbound>>

\* one iteration of the retry loop up to its first await: query_google, lines
\* 26-44.  A query that is not a str raises at line 26.
Attempt(c) ==
    /\ searches[c].pc = "attempt"
    /\ LET q == searches[c].query
           entry == CacheGet(cache, cache_key(q))
           pause == rate_limit_sleep(last_call, clock)
       IN IF ~IsText(q)
          THEN /\ searches' = [searches EXCEPT ![c].pc = "backoff",
                                               ![c].attempts = @ + 1,
                                               ![c].failures = @ + 1,
                                               ![c].wake = clock + BackoffTicks]
               /\ UNCHANGED <<last_call, outbound>>
          ELSE IF cache_hit(entry, clock)
          THEN /\ searches' = [searches EXCEPT ![c].pc = "done",
                                               ![c].attempts = @ + 1,
                                               ![c].source = "cache",
                                               ![c].results = entry.results]
               /\ UNCHANGED <<last_call, outbound>>
          ELSE IF pause > 0
          THEN /\ searches' = [searches EXCEPT ![c].pc = "ratelimited",
                                               ![c].attempts = @ + 1,
                                               ![c].wake = clock + pause]
               /\ UNCHANGED <<last_call, outbound>>
          ELSE /\ searches' = [searches EXCEPT ![c].pc = "network",
                                               ![c].attempts = @ + 1,
                                               ![c].wake = clock + NetworkTicks]
               /\ last_call' = clock
               /\ outbound' = Append(outbound, clock)
    /\ UNCHANGED <<appVars, ctxVars, apiVars, clock, advances, cache, nsearches>>

\* query_google, lines 43-49: the sleep is over, the clock of the rate limit
\* is set and the call goes out
Wake(c) ==
    /\ searches[c].pc = "ratelimited"
    /\ clock >= searches[c].wake
    /\ searches' = [searches EXCEPT ![c].pc = "network", ![c].wake = clock + NetworkTicks]
    /\ last_call' = clock
    /\ outbound' = Append(outbound, clock)
    /\ UNCHANGED <<appVars, ctxVars, apiVars, clock, advances, cache, nsearches>>

\* query_google, lines 51-72: the call answers and is cached, or fails and the
\* except clause returns the apology as the results
Complete(c, ok) ==
    /\ searches[c].pc = "network"
    /\ clock >= searches[c].wake
    /\ IF ok
       THEN /\ cache' = CachePut(cache, cache_key(searches[c].query),
                                 GoogleResults(searches[c].query), clock)
            /\ searches' = [searches EXCEPT ![c].pc = "done",
                                            ![c].source = "google_api",
                                            ![c].results = GoogleResults(searches[c].query)]
       ELSE /\ cache' = cache
            /\ searches' = [searches EXCEPT ![c].pc = "done",
                                            ![c].failures = @ + 1,
                                            ![c].source = "apology",
                                            ![c].results = SorryResults]
    /\ UNCHANGED <<appVars, ctxVars, apiVars, clock, advances, last_call, outbound, nsearches>>

\* _get_google_results_with_retry, lines 155-159: the sleep after a failed
\* attempt is over; the loop goes on, or ends and raises, and google_fallback
\* answers with a default response
Backoff(c) ==
    /\ searches[c].pc = "backoff"
    /\ clock >= searches[c].wake
    /\ searches' = IF searches[c].attempts >= retries + 1
                   THEN [searches EXCEPT ![c].pc = "done", ![c].source = "default"]
                   ELSE [searches EXCEPT ![c].pc = "attempt"]
    /\ UNCHANGED <<appVars, ctxVars, apiVars, clock, advances, last_call, cache, outbound, nsearches>>

\* google_fallback returns
FinishFallback(c) ==
    /\ searches[c].pc = "done"
    /\ searches' = [searches EXCEPT ![c] = IdleSearch]
    /\ UNCHANGED <<appVars, ctxVars, apiVars, clock, advances, last_call, cache, outbound, nsearches>>

\* time passes, never beyond the end of a sleep or of the network call
Advance(d) ==
    /\ advances < MaxAdvances
    /\ \A c \in Callers :
          searches[c].pc \in {"ratelimited", "network", "backoff"}
              => clock + d <= searches[c].wake
    /\ advances' = advances + 1
    /\ clock' = clock + d
    /\ UNCHANGED <<appVars, ctxVars, apiVars, last_call, cache, searches, outbound, nsearches>>

NextSearch ==
    \/ \E c \in Callers :
          \/ \E query \in SearchQueries : StartFallback(c, query)
          \/ Attempt(c)
          \/ Wake(c)
          \/ \E ok \in BOOLEAN : Complete(c, ok)
          \/ Backoff(c)
          \/ FinishFallback(c)
    \/ \E d \in Jumps : Advance(d)

InitSearch == InitLoaded /\ InitCtx /\ InitWeb /\ InitApi

SpecSearch == InitSearch /\ [][NextSearch]_vars

(***************************************************************************)
(* Properties of the web search (SpecSearch)                               *)
(***************************************************************************)
\* C12: any two outbound search calls are at least one second apart, whoever
\* the callers are.
C12_OutboundCallsOneSecondApart ==
    \A i \in 1..(Len(outbound) - 1) : outbound[i + 1] - outbound[i] >= RateLimitTicks

\* the claim's normalisation of a query: lower-cased and trimmed
Normalized(query) == Lower(Strip(query))

\* the cache holds an entry for the query that is younger than the TTL
FreshEntry(query) ==
    \E e \in cache : e.key = Normalized(query) /\ clock - e.timestamp < CacheTicks

\* caller c makes its query_google call in this step
QueryStep(c) ==
    /\ searches[c].pc = "attempt"
    /\ searches'[c].pc /= "attempt"
    /\ IsText(searches[c].query)

\* C13: a query_google call whose normalised query has a cache entry younger
\* than the TTL returns that entry's results, makes no outbound call, does not
\* sleep and leaves the rate-limit clock alone; without such an entry (none, or
\* one whose age has reached the TTL) nothing is served from the cache.
C13_FreshCacheEntryServed ==
    [][\A c \in Callers :
          QueryStep(c)
              => IF FreshEntry(searches[c].query)
                 THEN /\ searches'[c].pc = "done"
                      /\ searches'[c].source = "cache"
                      /\ searches'[c].results =
                             CacheGet(cache, Normalized(searches[c].query)).results
                      /\ outbound' = outbound
                      /\ last_call' = last_call
                      /\ cache' = cache
                 ELSE /\ searches'[c].source /= "cache"
                      /\ searches'[c].pc \in {"ratelimited", "network"}]_vars

\* the query "n " was answered from the entry cached for "N", and an outbound
\* call had been made less than a second before
C13_Witness ==
    \E c \in Callers :
        /\ searches[c].pc = "done"
        /\ searches[c].source = "cache"
        /\ searches[c].query = <<"n", " ">>
        /\ searches[c].results = GoogleResults(<<"N">>)
        /\ clock - last_call < RateLimitTicks
        /\ Len(outbound) = 1

\* C14: google_fallback makes at most retries + 1 search attempts and, when
\* every attempt failed, answers with a default response.
C14_FailedSearchGivesDefault ==
    \A c \in Callers :
        searches[c].pc = "done"
            => /\ searches[c].attempts <= retries + 1
               /\ searches[c].failures = searches[c].attempts
                      => searches[c].source = "default"


(***************************************************************************)
(* Properties of the Google-fallback feature flag (Spec)                   *)
(***************************************************************************)
\* the last call's prediction came back with a confidence below the threshold
BelowThreshold ==
    /\ NormalCall
    /\ ~last.pred.raised
    /\ last.thr /= Unset
    /\ last.pred.conf < last.thr

\* text is one of self.default_responses
IsDefaultResponse(text) ==
    \E k \in 1..Len(DefaultResponses(data)) : DefaultResponses(data)[k] = text

\* C15: a message classified with a confidence below the threshold while
\* ENABLE_GOOGLE_FALLBACK is off is answered with one of the default responses
\* and its text is logged as an unmatched query.
C15_BelowThresholdFlagOffDefaultAndLog ==
    [][(CallStep /\ BelowThreshold' /\ ~config.ENABLE_GOOGLE_FALLBACK)
        => /\ IsDefaultResponse(last'.result.response)
           /\ last'.logged = last'.input]_vars


\* the last call's message was an unknown or no_match turn
UnknownTurn ==
    /\ NormalCall
    /\ ~last.pred.raised
    /\ last.thr /= Unset
    /\ (last.pred.conf < last.thr \/ last.pred.label \in {"unknown", "no_match"})

\* C16: while ENABLE_GOOGLE_FALLBACK is off no call of process_input performs a
\* search, and an unknown or no_match turn is answered with one of the default
\* responses.
C16_NoSearchWhileFlagOff ==
    [][(CallStep /\ ~config.ENABLE_GOOGLE_FALLBACK)
        => /\ last'.searched = None
           /\ UnknownTurn' => IsDefaultResponse(last'.result.response)]_vars


(***************************************************************************)
(* Properties of a prediction without a model (SpecThreads)                *)
(***************************************************************************)
\* thread t returns from predict_intent in this step, entered on an instance
\* whose model was never loaded or trained
PredictedWithoutModel(t) ==
    /\ th[t].pc = "predicting"
    /\ classifiers[th[t].clf].model = "None"
    /\ classifiers[th[t].clf].origin = "init"
    /\ th'[t].pc /= "predicting"

\* C17: a prediction attempted while no model was ever loaded or trained ends
\* the call with the "trouble understanding" response, intent "error" and
\* confidence 0.0.
C17_NoModelGivesErrorResponse ==
    [][\A t \in Threads :
          PredictedWithoutModel(t)
              => /\ th'[t].pc = "done"
                 /\ th'[t].result = Result(TroubleText, "error", 0)]_vars


(***************************************************************************)
(* Properties of an established search preference and of blank input (Spec) *)
(***************************************************************************)
\* C18: an unknown message in a session whose search preference is already
\* true or false is resolved in the same call: searched when true, answered
\* with a default response and no search when false; the user turn and the
\* bot response are appended to the context, the session does not become
\* ConfirmationPending, keeps its preference, and the intent returned is not
\* "unknown_google_confirm".
C18_PreferenceResolvesUnknownAtOnce ==
    [][(CallStep /\ ClassifiedUnknown'
          /\ last'.before.session_google_search_preference /= "None")
        => /\ last'.before.session_google_search_preference = "True"
                => last'.searched = last'.input
           /\ last'.before.session_google_search_preference = "False"
                => (last'.searched = None /\ IsDefaultResponse(last'.result.response))
           /\ SessionAfter'.context_handler =
                  add_bot_response(
                      add_user_query(SessionOf(last'.user).context_handler, last'.input),
                      last'.result.response)
           /\ ~SessionAfter'.google_search_confirmation_pending
           /\ SessionAfter'.session_google_search_preference =
                  last'.before.session_google_search_preference
           /\ last'.result.intent = "unknown"]_vars

\* after a "yes", a message below the threshold was searched at once and its
\* answer is the last turn of the context
C18_Witness ==
    /\ ClassifiedUnknown
    /\ last.before.session_google_search_preference = "True"
    /\ last.searched = last.input
    /\ last.result.intent = "unknown"
    /\ ~SessionAfter.google_search_confirmation_pending
    /\ LastTurns(SessionAfter.context_handler, 1) = <<Turn("bot", last.result.response)>>


\* C19: a message that is blank after trimming is answered with the
\* prompt to type something, intent "none" and confidence 1.0; predict_intent
\* is not called, nothing is searched or logged, and the session (context,
\* confirmation flag, preference, pending query) is as it was before the call.
C19_BlankInputRejected ==
    [][(CallStep /\ Strip(last'.input) = <<>>)
        => /\ last'.result = Result(TypeSomethingText, "none", 100)
           /\ last'.pred = NoPrediction
           /\ last'.searched = None
           /\ last'.logged = None
           /\ SessionAfter' = SessionOf(last'.user)]_vars

\* a message of one space sent while the session was ConfirmationPending was
\* rejected and the session is still pending on the same query
C19_Witness ==
    /\ PendingCall
    /\ last.input = <<" ">>
    /\ last.result.intent = "none"
    /\ SessionAfter.google_search_confirmation_pending
    /\ SessionAfter.last_unknown_query = last.before.last_unknown_query
    /\ SessionAfter.last_unknown_query /= None


(***************************************************************************)
(* The HTTP boundary: POST /chat (api/server.py) and the API keys          *)
(* (utils/api_key_manager.py).  The endpoint is a coroutine of the         *)
(* server's event loop, so requests are handled one after the other; the   *)
(* server is started after set_chatbot_app, so chatbot_app is set.         *)
(***************************************************************************)
MaxRequests == 2
MaxDays == 2

ApiKeys == { <<"k", "1">>, <<"k", "2">> }

\* the header values a client sends: a key, an empty value, or no header
Headers == ApiKeys \cup { <<>>, None }

ExpirationDays == {1, 2}

HTTP_200_OK == 200
HTTP_401_UNAUTHORIZED == 401
HTTP_422_UNPROCESSABLE_ENTITY == 422

\* pwd_context.hash and pwd_context.verify
Hash(api_key) == <<"$2b$">> \o api_key

PwdVerify(api_key, key_hash) == key_hash = Hash(api_key)

Row(key_hash, user_id, expires_at) ==
    [key_hash |-> key_hash, user_id |-> user_id, expires_at |-> expires_at]

\* the rows the loop of verify_api_key accepts
Accepted(rows, api_key, now) ==
    {r \in 1..Len(rows) : PwdVerify(api_key, rows[r].key_hash) /\ rows[r].expires_at > now}

\* the expiry date not looked at
verify_api_key_ignoring_expiry(rows, api_key, now) ==
    LET hits == {r \in 1..Len(rows) : PwdVerify(api_key, rows[r].key_hash)}
    IN IF hits = {} THEN "None"
       ELSE rows[CHOOSE r \in hits : \A q \in hits : r <= q].user_id

\* APIKeyManager.verify_api_key: the user_id of the first row whose hash
\* verifies and that has not expired, else None
verify_api_key(rows, api_key, now) ==
    LET hits == Accepted(rows, api_key, now)
    IN IF hits = {} THEN "None"
       ELSE rows[CHOOSE r \in hits : \A q \in hits : r <= q].user_id

\* get_api_key: Header(...) makes the header required, a request without it is
\* answered by the framework's validation; then lines 57-63
get_api_key(rows, x_api_key, now) ==
    IF x_api_key = None
    THEN [status |-> HTTP_422_UNPROCESSABLE_ENTITY, user_id |-> "None"]
    ELSE LET user_id == verify_api_key(rows, x_api_key, now)
         IN IF user_id = "None"
            THEN [status |-> HTTP_401_UNAUTHORIZED, user_id |-> "None"]
            ELSE [status |-> HTTP_200_OK, user_id |-> user_id]

\* what process_input reads when the endpoint calls it: the active classifier
\* fitted; google_fallback finds the event loop running, so its search raises
ApiInputs ==
    {i \in NormalInputs : i.clf = "fitted" /\ i.out.conf = 90 /\ ~i.fbOk /\ i.pick = 1}

ApiMessages == { <<" ">>, <<"N">> }

\* APIKeyManager.generate_api_key(user_id, expiration_days); api_key is the
\* token drawn.  A user_id already stored violates UNIQUE: ValueError, no row.
GenerateApiKey(user_id, expiration_days, api_key) ==
    /\ \A r \in 1..Len(api_keys) : /\ api_keys[r].user_id /= user_id
                                   /\ api_keys[r].key_hash /= Hash(api_key)
    /\ api_keys' = Append(api_keys, Row(Hash(api_key), user_id, today + expiration_days))
    /\ UNCHANGED <<appVars, ctxVars, webVars, api_sessions, today, http>>

\* APIKeyManager.delete_api_key(user_id)
DeleteApiKey(user_id) ==
    /\ \E r \in 1..Len(api_keys) : api_keys[r].user_id = user_id
    /\ api_keys' = SelectSeq(api_keys, LAMBDA row : row.user_id /= user_id)
    /\ UNCHANGED <<appVars, ctxVars, webVars, api_sessions, today, http>>

\* a day passes
NextDay ==
    /\ today < MaxDays
    /\ today' = today + 1
    /\ UNCHANGED <<appVars, ctxVars, webVars, api_keys, api_sessions, http>>

\* POST /chat: the dependency get_api_key, then lines 86-107
Chat(x_api_key, m, i) ==
    /\ Quiet
    /\ http.n < MaxRequests
    /\ \E auth \in {get_api_key(api_keys, x_api_key, today)} :
          /\ http' = Request(http.n + 1, x_api_key, auth.status, auth.user_id)
          /\ IF auth.status /= HTTP_200_OK
             THEN UNCHANGED <<sessions, user_sessions, ncalls, last, api_sessions>>
             ELSE \E g \in {get_or_create_session(sessions, user_sessions, auth.user_id)} :
                  \E r \in {process_input(g.sessions[g.sid], m, Env(ClassifierIn(i.clf), i))} :
                     /\ ncalls' = ncalls + 1
                     /\ sessions' = [g.sessions EXCEPT ![g.sid] = r.outcome.session]
                     /\ user_sessions' = g.user_sessions
                     /\ last' = [user |-> auth.user_id, input |-> m, sid |-> g.sid,
                                 before |-> Flags(g.sessions[g.sid]),
                                 thr |-> config.CONFIDENCE_THRESHOLD, pred |-> r.pred,
                                 result |-> r.outcome.result,
                                 searched |-> r.outcome.searched,
                                 logged |-> r.outcome.logged]
                     /\ api_sessions' = Append(api_sessions,
                            [user_id |-> auth.user_id, api_key |-> x_api_key,
                             request_data |-> m, response_data |-> r.outcome.result])
    /\ UNCHANGED <<data, config, classifiers, intent_classifier, jobs, th,
                   ctxVars, webVars, api_keys, today>>

NextApi ==
    \/ \E user_id \in Users, expiration_days \in ExpirationDays, api_key \in ApiKeys :
          GenerateApiKey(user_id, expiration_days, api_key)
    \/ \E user_id \in Users : DeleteApiKey(user_id)
    \/ NextDay
    \/ \E x_api_key \in Headers, m \in ApiMessages, i \in ApiInputs : Chat(x_api_key, m, i)

InitServing == InitLoaded /\ InitCtx /\ InitWeb /\ InitApi

SpecApi == InitServing /\ [][NextApi]_vars

(***************************************************************************)
(* Properties of the HTTP boundary (SpecApi)                               *)
(***************************************************************************)
\* this step is a request to POST /chat
RequestStep == http'.n = http.n + 1

\* this step calls process_input
InvokesProcessInput == ncalls' = ncalls + 1

\* the user ids of the stored, unexpired rows whose key is the one presented
Holders(x_api_key) ==
    {api_keys[r].user_id : r \in {q \in 1..Len(api_keys) :
        api_keys[q].key_hash = Hash(x_api_key) /\ api_keys[q].expires_at > today}}

\* C20 as stated: over POST /chat process_input is called only for a request
\* whose key matches a stored key that has not expired, and with the user_id
\* stored for that key; a request whose key is missing, unknown or expired is
\* answered 401, does not reach process_input and creates no session.
C20_UnverifiedRequestAnswered401 ==
    [][RequestStep
        => /\ InvokesProcessInput
                => (http'.x_api_key /= None /\ last'.user \in Holders(http'.x_api_key))
           /\ (http'.x_api_key = None \/ Holders(http'.x_api_key) = {})
                => /\ http'.status = HTTP_401_UNAUTHORIZED
                   /\ ~InvokesProcessInput
                   /\ sessions' = sessions
                   /\ user_sessions' = user_sessions]_vars

\* C20: over POST /chat process_input is called only for a request
\* whose key matches a stored key that has not expired, and with the user_id
\* stored for that key; a request with an unknown or expired key is answered
\* 401 and a request without the header 422, and neither reaches process_input
\* nor creates a session.
C20_OnlyVerifiedRequestsReachProcessInput ==
    [][RequestStep
        => /\ InvokesProcessInput
                => (http'.x_api_key /= None /\ last'.user \in Holders(http'.x_api_key))
           /\ (http'.x_api_key = None \/ Holders(http'.x_api_key) = {})
                => /\ http'.status = IF http'.x_api_key = None
                                     THEN HTTP_422_UNPROCESSABLE_ENTITY
                                     ELSE HTTP_401_UNAUTHORIZED
                   /\ ~InvokesProcessInput
                   /\ sessions' = sessions
                   /\ user_sessions' = user_sessions]_vars

\* after a request was served, a request with a stored key that has expired
\* was answered 401 and its user has no session
C20_Witness ==
    /\ api_sessions /= <<>>
    /\ http.status = HTTP_401_UNAUTHORIZED
    /\ \E r \in 1..Len(api_keys) :
          /\ api_keys[r].key_hash = Hash(http.x_api_key)
          /\ api_keys[r].expires_at <= today
          /\ user_sessions[api_keys[r].user_id] = 0


(***************************************************************************)
(* Properties of matched intents (Spec)                                    *)
(***************************************************************************)
\* the last call's message was classified as catalog tag last.pred.label with
\* a confidence at or above the threshold
Matched ==
    /\ NormalCall
    /\ ~last.pred.raised
    /\ last.thr /= Unset
    /\ last.pred.conf >= last.thr
    /\ last.pred.label \in CatalogTags

\* text is one of the responses configured for tag
IsResponseOf(tag, text) ==
    \E k \in 1..Len(ResponseMap(data, tag)) : ResponseMap(data, tag)[k] = text

\* the context of the last call's session gained the user turn, then the bot turn
GainedBothTurns ==
    SessionAfter'.context_handler =
        add_bot_response(
            add_user_query(SessionOf(last'.user).context_handler, last'.input),
            last'.result.response)

\* C21 as stated: a message classified as a catalog intent with responses, at
\* or above the threshold, is answered with one of that intent's responses and
\* that tag, and the context gains the user turn followed by the bot turn.
C21_MatchedIntentGivesConfiguredResponse ==
    [][(CallStep /\ Matched' /\ ResponseMap(data, last'.pred.label) /= <<>>)
        => /\ IsResponseOf(last'.pred.label, last'.result.response)
           /\ last'.result.intent = last'.pred.label
           /\ GainedBothTurns]_vars

\* C21: a message classified as a catalog intent with responses, at or above
\* the threshold, is answered with that tag and with one of that intent's
\* responses or, for the greeting intent, with the greeting that names the
\* person found in the message; the context gains the user turn followed by
\* the bot turn.
C21_MatchedIntentGivesConfiguredOrPersonalGreeting ==
    [][(CallStep /\ Matched' /\ ResponseMap(data, last'.pred.label) /= <<>>)
        => /\ \/ IsResponseOf(last'.pred.label, last'.result.response)
              \/ (last'.pred.label = "greeting" /\ last'.result.response = HelloText)
           /\ last'.result.intent = last'.pred.label
           /\ GainedBothTurns]_vars

\* "greeting" at 0.9 against a threshold of 0.5 was answered with a greeting
\* response and the context ends with the two turns
C21_Witness ==
    /\ Matched
    /\ last.pred.label = "greeting"
    /\ last.pred.conf = 90
    /\ last.thr = 50
    /\ IsResponseOf("greeting", last.result.response)
    /\ LastTurns(SessionAfter.context_handler, 2)
           = <<Turn("user", last.input), Turn("bot", last.result.response)>>


\* C22: a matched intent without configured responses is answered, when
\* ENABLE_GOOGLE_FALLBACK is on, by the Google fallback called with the user's
\* query (a search-derived response when the search succeeds, a default
\* response when it fails), and with a default response and no search when the
\* flag is off.
C22_NoResponsesFallsBackToSearchForQuery ==
    [][(CallStep /\ Matched' /\ ResponseMap(data, last'.pred.label) = <<>>)
        => IF config.ENABLE_GOOGLE_FALLBACK
           THEN /\ last'.searched = last'.input
                /\ \/ last'.result.response = <<"#google">> \o last'.input
                   \/ IsDefaultResponse(last'.result.response)
           ELSE /\ last'.searched = None
                /\ IsDefaultResponse(last'.result.response)]_vars


(***************************************************************************)
(* get_context() and its callers.  The deque holds references to the turn  *)
(* dicts; list(self.context) is a new list of the same references.         *)
(***************************************************************************)
MaxDicts == 3

\* the text a caller writes into a turn it was handed
CallerText == <<"x">>

\* the turns a sequence of references denotes
Deref(heap, refs) == [i \in 1..Len(refs) |-> heap[refs[i]]]

\* the turns the context window holds
History == Deref(dicts, get_context(window))

\* ContextHandler.add_user_query(query): a new dict, appended to the deque
AppendUserTurn(query) ==
    /\ Len(dicts) < MaxDicts
    /\ dicts' = Append(dicts, Turn("user", query))
    /\ window' = [window EXCEPT
                     !.context = DequeAppend(@, window.window_size, Len(dicts) + 1)]
    /\ got' = [got EXCEPT !.clean = FALSE]
    /\ UNCHANGED <<appVars, webVars, apiVars, handler, appended, lists>>

\* ContextHandler.add_bot_response(response)
AppendBotTurn(response) ==
    /\ Len(dicts) < MaxDicts
    /\ dicts' = Append(dicts, Turn("bot", response))
    /\ window' = [window EXCEPT
                     !.context = DequeAppend(@, window.window_size, Len(dicts) + 1)]
    /\ got' = [got EXCEPT !.clean = FALSE]
    /\ UNCHANGED <<appVars, webVars, apiVars, handler, appended, lists>>

\* ContextHandler.clear_context()
ClearWindow ==
    /\ window.context /= <<>>
    /\ window' = [window EXCEPT !.context = <<>>]
    /\ got' = [got EXCEPT !.clean = FALSE]
    /\ UNCHANGED <<appVars, webVars, apiVars, handler, appended, dicts, lists>>

\* l = handler.get_context()
GetContext(l) ==
    /\ lists' = [lists EXCEPT ![l] = [held |-> TRUE, items |-> get_context(window)]]
    /\ got' = [called |-> TRUE, value |-> History, clean |-> TRUE]
    /\ UNCHANGED <<appVars, webVars, apiVars, handler, appended, dicts, window>>

\* the caller's l.pop()
ListPop(l) ==
    /\ lists[l].held
    /\ lists[l].items /= <<>>
    /\ lists' = [lists EXCEPT ![l].items = SubSeq(@, 1, Len(@) - 1)]
    /\ UNCHANGED <<appVars, webVars, apiVars, handler, appended, dicts, window, got>>

\* the caller's l[i]["text"] = text
ListSetText(l, i, text) ==
    /\ lists[l].held
    /\ i \in 1..Len(lists[l].items)
    /\ dicts[lists[l].items[i]].text /= text
    /\ dicts' = [dicts EXCEPT ![lists[l].items[i]].text = text]
    /\ got' = [got EXCEPT !.clean = FALSE]
    /\ UNCHANGED <<appVars, webVars, apiVars, handler, appended, window, lists>>

\* the caller drops its list
ListDrop(l) ==
    /\ lists[l].held
    /\ lists' = [lists EXCEPT ![l] = NoList]
    /\ UNCHANGED <<appVars, webVars, apiVars, handler, appended, dicts, window, got>>

NextSnapshot ==
    \/ \E query \in ContextTexts : AppendUserTurn(query)
    \/ \E response \in ContextTexts : AppendBotTurn(response)
    \/ ClearWindow
    \/ \E l \in ListOwners :
          \/ GetContext(l)
          \/ ListPop(l)
          \/ \E i \in 1..MaxWindow : ListSetText(l, i, CallerText)
          \/ ListDrop(l)

InitSnapshot ==
    /\ InitLoaded
    /\ handler = ContextHandler(CONTEXT_WINDOW_SIZE)
    /\ appended = <<>>
    /\ window \in {ContextHandler(n) : n \in 0..MaxWindow}
    /\ InitSnap
    /\ InitWeb
    /\ InitApi

SpecSnapshot == InitSnapshot /\ [][NextSnapshot]_vars

(***************************************************************************)
(* Properties of get_context() (SpecSnapshot)                              *)
(***************************************************************************)
\* this step is neither an append nor a clear: the handler's methods that
\* change the window were not called
NoHandlerMutation == window' = window /\ Len(dicts') = Len(dicts)

\* C23: get_context() returns a snapshot: whatever a caller does with the
\* value returned, the turns held by the context window stay as they were; and
\* two get_context() calls with no mutation in between return equal values.
C23_GetContextReturnsSnapshot ==
    [][/\ NoHandlerMutation
          => Deref(dicts', get_context(window')) = Deref(dicts, get_context(window))
       /\ (got.called /\ got.clean /\ got'.clean) => got'.value = got.value]_vars


(***************************************************************************)
(* Properties of blocking retrains and of start-up (SpecRetrain)           *)
(***************************************************************************)
\* C24: a blocking retrain trains first and swaps afterwards: an instance a
\* blocking retrain built is active, or used by a prediction in flight, only
\* once its training has completed; a blocking retrain that failed leaves the
\* classifier that was active before in place.
C24_BlockingRetrainTrainsThenSwaps ==
    /\ classifiers[intent_classifier].origin = "blocking"
          => /\ Trained(classifiers[intent_classifier])
             /\ \A j \in 1..Len(jobs) : jobs[j].inst /= intent_classifier
    /\ \A t \in Threads :
          (th[t].clf /= 0 /\ classifiers[th[t].clf].origin = "blocking")
              => Trained(classifiers[th[t].clf])


(***************************************************************************)
(* Properties of the sessions between calls (SpecThreads)                  *)
(***************************************************************************)
\* no thread is inside process_input for user u
Between(u) == \A t \in Threads : th[t].pc = "idle" \/ th[t].user /= u

\* C25: between process_input calls every session has its confirmation flag
\* set if and only if a pending query is stored, and a stored pending query is
\* not blank.
C25_PendingFlagIffPendingQuery ==
    \A u \in Users :
        (user_sessions[u] /= 0 /\ Between(u))
            => LET s == sessions[user_sessions[u]] IN
               /\ s.google_search_confirmation_pending <=> s.last_unknown_query /= None
               /\ s.last_unknown_query /= None => Strip(s.last_unknown_query) /= <<>>


\* C26: a session's search preference is written at most once: a new session
\* has none, it is set only while the session is ConfirmationPending, and once
\* it is true or false it keeps its value and the session is never
\* ConfirmationPending again.
C26_PreferenceWrittenOnce ==
    [][/\ \A k \in 1..Len(sessions) :
             /\ sessions[k].session_google_search_preference /= "None"
                   => /\ sessions'[k].session_google_search_preference
                             = sessions[k].session_google_search_preference
                      /\ ~sessions'[k].google_search_confirmation_pending
             /\ (/\ sessions[k].session_google_search_preference = "None"
                 /\ sessions'[k].session_google_search_preference /= "None")
                   => sessions[k].google_search_confirmation_pending
       /\ \A k \in (Len(sessions) + 1)..Len(sessions') :
             sessions'[k].session_google_search_preference = "None"]_vars


\* the session stored for user v, NewSession standing for none
StoredSession(ss, us, v) == IF us[v] = 0 THEN NewSession ELSE ss[us[v]]

\* C27: a step of process_input(u, text) leaves the session of every other
\* user as it was, and a session once stored under a user is never removed
\* from the session map nor replaced by another one.
C27_OnlyOwnSessionTouched ==
    [][/\ \A t \in Threads :
             th'[t] /= th[t]
                => \A v \in Users \ {th[t].user, th'[t].user} :
                      StoredSession(sessions', user_sessions', v)
                          = StoredSession(sessions, user_sessions, v)
       /\ \A u \in Users :
             user_sessions[u] /= 0 => user_sessions'[u] = user_sessions[u]]_vars


\* C28: at start-up a background retrain is started if and only if loading the
\* saved model did not succeed: with both model files loaded no retrain job
\* exists and the loaded model is the active one; from then on the active
\* classifier changes only in a step of a retrain job.
C28_StartUpRetrainIffLoadFailed ==
    /\ jobs /= <<>> <=> ~Trained(classifiers[intent_classifier])
    /\ [][intent_classifier' /= intent_classifier => jobs' /= jobs]_vars


(***************************************************************************)
(* Properties of the error response and of the context turns (Spec)        *)
(***************************************************************************)
\* C29: process_input returns intent "error" only when predict_intent raised:
\* a non-blank message handled in the Normal state for which predict_intent
\* returned a label and a confidence is not answered with intent "error",
\* the configuration being the one Config() builds or any later one.
C29_ErrorOnlyWhenClassifierRaised ==
    (Called /\ last.result.intent = "error") => last.pred.raised


\* C30: each message accepted by process_input is recorded as at most one
\* user turn of its session's context: a call appends its own message once,
\* followed or not by the bot turn, or nothing; the call that answers "yes" to
\* the prompt appends only the bot turn, the pending query having been
\* recorded by the call that received it.
C30_MessageRecordedOnce ==
    [][CallStep
        => LET before == SessionOf(last'.user).context_handler
               after == SessionAfter'.context_handler
           IN IF AnsweredYes'
              THEN after = add_bot_response(before, last'.result.response)
              ELSE \/ after = before
                   \/ after = add_user_query(before, last'.input)
                   \/ after = add_bot_response(add_user_query(before, last'.input),
                                               last'.result.response)]_vars
====
